---- MODULE Spec2Model ----
(***************************************************************************)
(* GeoViz Pro (src/app.py): a Streamlit script.  Every user interaction    *)
(* re-executes the script from the top in a fresh namespace; only          *)
(* st.session_state['data_points'] and the widgets' values survive from    *)
(* one run to the next.  One step of this model is one user interaction    *)
(* together with the complete script run (and st.rerun()) that it causes.  *)
(*                                                                         *)
(* Optional values: a name that the run never bound, a widget that holds   *)
(* nothing and a NaN grid node are the empty tuple; a present value v is   *)
(* the one-element tuple <<v>>.                                            *)
(* Real numbers: depths and coordinates are integers; quotients (cell      *)
(* sizes, volumes) are exact fractions [num, den] with den > 0.            *)
(***************************************************************************)
EXTENDS Integers, Sequences, FiniteSets, TLC

\* ---------------------------------------------------------------- bounds
\* Longest point store built by hand (add / bulk-load) that is explored.
MaxPoints == 4
\* Grid nodes of the interpolated surface that are sampled (the code's grid
\* has nx*ny nodes; everything downstream of griddata is element-wise).
NumNodes == 2

\* ------------------------------------------------------- program constants
nx == 100
ny == 100

\* ------------------------------------------------------------ option type
Unbound == <<>>
NaN == <<>>
Some(v) == <<v>>
Val(o) == o[1]
IsBound(o) == o # <<>>

Range(s) == {s[i] : i \in DOMAIN s}

\* ---------------------------------------------------------------- reals
Rat(n, d) == [num |-> n, den |-> d]
RatMul(a, b) == Rat(a.num * b.num, a.den * b.den)
RatScale(k, a) == Rat(k * a.num, a.den)
\* Fractions over one denominator are subtracted and compared as such (the
\* volumes of one run all carry the denominator of cell_area).
RatSub(a, b) ==
    IF a.den = b.den THEN Rat(a.num - b.num, a.den)
    ELSE Rat(a.num * b.den - b.num * a.den, a.den * b.den)
RatZero == Rat(0, 1)

\* ------------------------------------------------------------ input sets
P(x, y, z) == [X |-> x, Y |-> y, Z |-> z]

\* Points the user types into the form (number_input, step 10.0).
InputPoints == {P(0, 0, 10), P(10, 0, 20), P(0, 10, 30)}

\* Depths the user types into the GOC / WOC inputs.
Contacts == {10, 20, 30}
AllContactPairs == Contacts \X Contacts

\* The pairs <<GOC, WOC>> explored together with every point store: in
\* order, equal and inverted; against the depths 10, 20, 30 of the points
\* they give every combination of Z <, =, > GOC with Z <, =, > WOC.
ContactPairs == {<<10, 30>>, <<20, 20>>, <<30, 10>>}

\* Depths a grid node of the interpolated surface may take, besides NaN:
\* one between the first two contact depths, one between the last two.
SurfaceDepths == {15, 25}

\* Files offered to the uploader: one valid (lower-case and extra columns,
\* a row that repeats an existing location with another depth), one that
\* lacks the Z column, one that the reader cannot parse.
FileValid ==
    [parses |-> TRUE, columns |-> <<"x", "Y", "z", "well">>,
     rows |-> << <<0, 0, 30, 7>>, <<10, 10, 20, 8>> >>]
FileNoZ ==
    [parses |-> TRUE, columns |-> <<"X", "y", "depth">>,
     rows |-> << <<10, 0, 20>> >>]
FileGarbled ==
    [parses |-> FALSE, columns |-> <<>>, rows |-> <<>>]
Files == {FileValid, FileNoZ, FileGarbled}

\* ------------------------------------------------------------- the state
VARIABLES
    data_points,    \* st.session_state['data_points']
    uploaded_file,  \* the file held by st.file_uploader, optional
    event,          \* the user interaction that caused the latest run
    goc_input,      \* optional: bound only when df is not empty
    woc_input,
    warned,         \* st.warning("GOC > WOC") was shown in the latest run
    upload_msg,     \* "none", "success", "format_error", "read_error"
    load_button,    \* the "Muat Data ke Aplikasi" button was rendered
    attempted,      \* griddata methods called in the latest run, in order
    raised,         \* the methods among them whose call raised, in order
    grid_z,         \* optional: the interpolated surface
    cell_area,      \* optional
    vol_total_res,  \* optional
    vol_gas_cap,    \* optional
    vol_oil_zone,   \* optional
    Fluid,          \* optional: df['Fluid'], one label per row of df
    shown,          \* main panel: "info", "surface", "raw_points", "nothing"
    exception       \* uncaught exception that ended the run, or "none"

vars == <<data_points, uploaded_file, event, goc_input, woc_input, warned,
          upload_msg, load_button, attempted, raised, grid_z,
          cell_area,
          vol_total_res, vol_gas_cap, vol_oil_zone, Fluid, shown, exception>>

\* ------------------------------------------------------------ Point Store
\* The built-in demo dataset (13 points).
DemoData ==
    << P(100, 100, 1300), P(300, 100, 1300),
       P(100, 300, 1300), P(300, 300, 1300),
       P(200, 200, 1000),
       P(200, 100, 1150), P(200, 300, 1150),
       P(100, 200, 1150), P(300, 200, 1150),
       P(150, 150, 1100), P(250, 250, 1100),
       P(150, 250, 1100), P(250, 150, 1100) >>

\* submit_button: st.session_state['data_points'].append({...})
add_point(store, p) == Append(store, p)

\* "Muat Data ke Aplikasi": st.session_state['data_points'].extend(new_data)
extend_points(store, new_data) == store \o new_data

\* "Reset Semua Data": st.session_state['data_points'] = []
reset_points(store) == <<>>

\* (variant: the demo dataset appended to what the store holds)
load_demo_extends(store) == store \o DemoData

\* "Load Data Demo": st.session_state['data_points'] = [ ...13 points... ]
load_demo(store) == DemoData

\* --------------------------------------------------------- upload section
\* str.upper() on the column names that occur in the files above.
upper(c) ==
    CASE c = "x" -> "X"
      [] c = "y" -> "Y"
      [] c = "z" -> "Z"
      [] c = "well" -> "WELL"
      [] c = "depth" -> "DEPTH"
      [] OTHER -> c

\* df_upload.columns = [c.upper() for c in df_upload.columns]
uppercased(columns) == [i \in DOMAIN columns |-> upper(columns[i])]

required_cols == {"X", "Y", "Z"}

\* (variant: one required column is enough)
columns_valid_any(columns) == required_cols \cap Range(columns) # {}

\* required_cols.issubset(df_upload.columns)
columns_valid(columns) == required_cols \subseteq Range(columns)

\* df_upload[['X', 'Y', 'Z']].to_dict('records')
to_dict_records(columns, rows) ==
    LET col(c) == CHOOSE i \in DOMAIN columns : columns[i] = c
    IN  [r \in DOMAIN rows |->
            P(rows[r][col("X")], rows[r][col("Y")], rows[r][col("Z")])]

\* The "Upload File" expander of one run: what it reports, whether it
\* renders the load button, and the records it appends when that button
\* was the interaction of this run (it then calls st.rerun()).
upload_section(file, clicked) ==
    IF ~IsBound(file)
    THEN [msg |-> "none", button |-> FALSE, new_data |-> <<>>]
    ELSE IF ~Val(file).parses
    THEN [msg |-> "read_error", button |-> FALSE, new_data |-> <<>>]
    ELSE LET columns == uppercased(Val(file).columns)
         IN  IF columns_valid(columns)
             THEN [msg |-> "success", button |-> TRUE,
                   new_data |-> IF clicked
                                THEN to_dict_records(columns, Val(file).rows)
                                ELSE <<>>]
             ELSE [msg |-> "format_error", button |-> FALSE,
                   new_data |-> <<>>]

\* ------------------------------------------------------ sidebar: contacts
seq_min(s) == CHOOSE m \in Range(s) : \A i \in DOMAIN s : m <= s[i]
seq_max(s) == CHOOSE m \in Range(s) : \A i \in DOMAIN s : m >= s[i]

column(df, c) == [i \in DOMAIN df |-> df[i][c]]

\* min_z, max_z = df['Z'].min(), df['Z'].max()
min_z(df) == seq_min(column(df, "Z"))
max_z(df) == seq_max(column(df, "Z"))

\* value=float(min_z + (max_z-min_z)*0.3): every depth of the model is a
\* multiple of 10, so the product is a whole number.
goc_default(df) == min_z(df) + ((max_z(df) - min_z(df)) * 3) \div 10
\* value=float(min_z + (max_z-min_z)*0.7)
woc_default(df) == min_z(df) + ((max_z(df) - min_z(df)) * 7) \div 10

\* What st.number_input(..., value=default, key=...) returns in a run that
\* renders it: the value typed in this interaction; else the default when
\* the widget is new (it was not rendered by the previous run); else the
\* value it held, except that a Streamlit release which identifies a widget
\* by its parameters (param_identity) starts it afresh when the default
\* changed.
number_input(typed, held, old_default, default, param_identity) ==
    IF IsBound(typed) THEN Val(typed)
    ELSE IF ~IsBound(held) THEN default
    ELSE IF param_identity /\ old_default # Some(default) THEN default
    ELSE Val(held)

\* -------------------------------------------------------- Grid Interpolator
\* Sum of the numbers s[1] .. s[Len(s)].
seq_sum(s) ==
    LET acc[i \in 0..Len(s)] == IF i = 0 THEN 0 ELSE acc[i - 1] + s[i]
    IN  acc[Len(s)]

group_sum(df, x, y) ==
    seq_sum([i \in DOMAIN df |->
                IF df[i].X = x /\ df[i].Y = y THEN df[i].Z ELSE 0])
group_size(df, x, y) ==
    Cardinality({i \in DOMAIN df : df[i].X = x /\ df[i].Y = y})

\* df.groupby(['X', 'Y'], as_index=False)['Z'].mean(): one row per
\* location, Z the mean (a fraction) of the depths given for it.
groupby_mean(df) ==
    { [X |-> k[1], Y |-> k[2],
       Z |-> Rat(group_sum(df, k[1], k[2]), group_size(df, k[1], k[2]))] :
      k \in {<<df[i].X, df[i].Y>> : i \in DOMAIN df} }

\* scipy's griddata triangulates the locations (Qhull) for both the cubic
\* and the linear method; the triangulation raises QhullError unless three
\* of the locations are not on one line.
collinear(a, b, c) ==
    (b.X - a.X) * (c.Y - a.Y) - (b.Y - a.Y) * (c.X - a.X) = 0

qhull_raises(points) ==
    \A a \in points : \A b \in points : \A c \in points : collinear(a, b, c)

\* method='cubic' and method='linear' raise whenever the triangulation
\* does; the cubic one may also fail numerically (raises_too).
cubic_raises(points, raises_too) == qhull_raises(points) \/ raises_too
\* (variant: a fallback method that needs no triangulation, as 'nearest')
fallback_raises_without_qhull(points, raises_too) == raises_too
linear_raises(points, raises_too) == qhull_raises(points) \/ raises_too

\* try: grid_z = griddata(..., method='cubic')
\* except: grid_z = griddata(..., method='linear')
\* [calls |-> the methods called, grid_z |-> the surface, unbound when the
\* call in the except clause raised as well].  surface is what the method
\* that succeeds returns.
\* raised |-> the calls that raised.
\* (variant: the linear call made after the try block, whatever happened)
interpolate_then_linear(cubic_fails, linear_fails, surface) ==
    [calls |-> <<"cubic", "linear">>,
     raised |-> (IF cubic_fails THEN <<"cubic">> ELSE <<>>)
                \o (IF linear_fails THEN <<"linear">> ELSE <<>>),
     grid_z |-> IF linear_fails THEN Unbound ELSE Some(surface)]

interpolate(cubic_fails, linear_fails, surface) ==
    IF ~cubic_fails
    THEN [calls |-> <<"cubic">>, raised |-> <<>>, grid_z |-> Some(surface)]
    ELSE IF ~linear_fails
    THEN [calls |-> <<"cubic", "linear">>, raised |-> <<"cubic">>,
          grid_z |-> Some(surface)]
    ELSE [calls |-> <<"cubic", "linear">>, raised |-> <<"cubic", "linear">>,
          grid_z |-> Unbound]

\* The surfaces griddata may return: every node a depth or NaN.
Surfaces == [1..NumNodes -> {NaN} \cup {Some(z) : z \in SurfaceDepths}]

\* The surfaces explored together with every point store: one defined
\* everywhere, one whose first node is NaN.
SessionSurfaces ==
    {[i \in 1..NumNodes |-> Some(20)],
     [i \in 1..NumNodes |-> IF i = 1 THEN NaN ELSE Some(20)]}

\* -------------------------------------------------------- Volumetric Engine
\* dx = (x_max - x_min) / (nx - 1); dy likewise; cell_area = dx * dy
grid_cell_area(df) ==
    LET dx == Rat(seq_max(column(df, "X")) - seq_min(column(df, "X")), nx - 1)
        dy == Rat(seq_max(column(df, "Y")) - seq_min(column(df, "Y")), ny - 1)
    IN  RatMul(dx, dy)

\* (variant: the NaN nodes filled with depth zero before the subtraction)
thickness_zero_filled(contact, grid) ==
    [i \in DOMAIN grid |->
        IF grid[i] = NaN THEN Some(contact - 0)
        ELSE Some(contact - Val(grid[i]))]

\* contact - grid_z: NaN where the node is NaN.
thickness_above(contact, grid) ==
    [i \in DOMAIN grid |->
        IF grid[i] = NaN THEN NaN ELSE Some(contact - Val(grid[i]))]

\* (variant: the clamping line left out)
clamp_none(thick) == thick

\* thick[thick < 0] = 0: the comparison is False on NaN, which stays.
clamp_negative(thick) ==
    [i \in DOMAIN thick |->
        IF thick[i] # NaN /\ Val(thick[i]) < 0 THEN Some(0) ELSE thick[i]]

\* np.nansum: NaN counts as zero.
nansum(a) ==
    seq_sum([i \in DOMAIN a |-> IF a[i] = NaN THEN 0 ELSE Val(a[i])])

\* np.nansum(thick) * cell_area, thick clamped
volume_above(contact, grid, area) ==
    RatScale(nansum(clamp_negative(thickness_above(contact, grid))), area)

\* max(0, vol_total_res - vol_gas_cap): Python's max returns its first
\* argument unless the second is greater.
oil_zone_volume(total, gas) ==
    LET d == RatSub(total, gas) IN IF d.num > 0 THEN d ELSE RatZero

\* ---------------------------------------------------------- Fluid Classifier
\* (variant: the Oil Zone condition strict at GOC)
fluid_label_strict_goc(z, goc, woc) ==
    IF z < goc THEN "Gas Cap"
    ELSE IF z > goc /\ z <= woc THEN "Oil Zone"
    ELSE IF z > woc THEN "Aquifer"
    ELSE "Unknown"

\* (variant: the Oil Zone condition strict at WOC)
fluid_label_strict_woc(z, goc, woc) ==
    IF z < goc THEN "Gas Cap"
    ELSE IF z >= goc /\ z < woc THEN "Oil Zone"
    ELSE IF z > woc THEN "Aquifer"
    ELSE "Unknown"

\* np.select(conditions, choices, default='Unknown'): the first condition
\* that holds decides.  The 2D tab and the export figure run the same code.
fluid_label(z, goc, woc) ==
    IF z < goc THEN "Gas Cap"
    ELSE IF z >= goc /\ z <= woc THEN "Oil Zone"
    ELSE IF z > woc THEN "Aquifer"
    ELSE "Unknown"

classify(df, goc, woc) ==
    [i \in 1..Len(df) |-> fluid_label(df[i].Z, goc, woc)]

\* (variant: the comparison reversed)
inversion_warning_reversed(goc, woc) == goc < woc

\* if goc_input > woc_input: st.warning("Awas: GOC > WOC!")
inversion_warning(goc, woc) == goc > woc

\* ------------------------------------------------------------ one script run
Event(kind, arg) == [kind |-> kind, arg |-> arg]

\* (A value bound by \E v \in {e} is computed once; the model uses this
\* form where a definition would otherwise be expanded at every use.)

\* The volumetrics block, the tabs and the export preparation of a run
\* that holds the surface grid (lines 150-320): nothing in them raises.
\* area is cell_area and labels the column df['Fluid'] of this run.
SurfaceRun(area, labels, goc, woc, grid) ==
    \E total \in {volume_above(woc, grid, area)} :
    \E gas \in {volume_above(goc, grid, area)} :
        /\ cell_area' = Some(area)
        /\ vol_total_res' = Some(total)
        /\ vol_gas_cap' = Some(gas)
        /\ vol_oil_zone' = Some(oil_zone_volume(total, gas))
        /\ Fluid' = Some(labels)
        /\ shown' = "surface"
        /\ exception' = "none"

\* A run that binds none of the derived names and ends in state `how`.
NoSurface(panel, how) ==
    /\ grid_z' = Unbound
    /\ cell_area' = Unbound
    /\ vol_total_res' = Unbound
    /\ vol_gas_cap' = Unbound
    /\ vol_oil_zone' = Unbound
    /\ Fluid' = Unbound
    /\ shown' = panel
    /\ exception' = how

\* The main panel for a non-empty df (lines 136-320).  S is the set of
\* surfaces griddata may return.
MainPanel(df, goc, woc, S) ==
    IF Len(df) >= 4
    THEN \E df_unique \in {groupby_mean(df)} :
         \E must \in {qhull_raises(df_unique)} :
         \E cubic_too \in (IF must THEN {FALSE} ELSE BOOLEAN) :
         \E linear_too \in (IF must \/ ~cubic_too THEN {FALSE} ELSE BOOLEAN) :
         \E cubic_fails \in {cubic_raises(df_unique, cubic_too)} :
         \E linear_fails \in {linear_raises(df_unique, linear_too)} :
             IF cubic_fails /\ linear_fails
             THEN \* the call in the except clause raised as well
                  \E got \in {interpolate(TRUE, TRUE, <<>>)} :
                      /\ attempted' = got.calls
                      /\ raised' = got.raised
                      /\ NoSurface("nothing",
                                   IF must THEN "QhullError" ELSE "Exception")
             ELSE \E area \in {grid_cell_area(df)} :
                  \E labels \in {classify(df, goc, woc)} :
                  \E surface \in S :
                  \E got \in {interpolate(cubic_fails, linear_fails, surface)} :
                      /\ attempted' = got.calls
                      /\ raised' = got.raised
                      /\ grid_z' = got.grid_z
                      /\ SurfaceRun(area, labels, goc, woc, Val(got.grid_z))
    ELSE \* st.warning + st.dataframe(df); the export preparation that
         \* follows (line 270) reads grid_z, which this run never bound
         /\ attempted' = <<>>
         /\ raised' = <<>>
         /\ NoSurface("raw_points", "NameError")

\* The run of the script, from the top, that ends the interaction ev: the
\* session holds store, the uploader holds file.
ScriptRun(ev, store, file, S) ==
    \E df \in {store} :
    \E up \in {upload_section(file, FALSE)} :
        /\ data_points' = df
        /\ uploaded_file' = file
        /\ event' = ev
        /\ upload_msg' = up.msg
        /\ load_button' = up.button
        /\ IF df = <<>>
           THEN \* the contact inputs are not rendered; st.info(...)
                /\ goc_input' = Unbound
                /\ woc_input' = Unbound
                /\ warned' = FALSE
                /\ attempted' = <<>>
                /\ raised' = <<>>
                /\ NoSurface("info", "none")
           ELSE \E typed \in {IF ev.kind = "contacts"
                              THEN <<Some(ev.arg[1]), Some(ev.arg[2])>>
                              ELSE <<Unbound, Unbound>>} :
                \E old \in {IF data_points = <<>> THEN <<Unbound, Unbound>>
                            ELSE <<Some(goc_default(data_points)),
                                   Some(woc_default(data_points))>>} :
                \E new \in {<<goc_default(df), woc_default(df)>>} :
                \E param_identity \in
                      (IF IsBound(typed[1]) \/ ~IsBound(goc_input)
                          \/ old = <<Some(new[1]), Some(new[2])>>
                       THEN {FALSE} ELSE BOOLEAN) :
                \E goc \in {number_input(typed[1], goc_input, old[1],
                                         new[1], param_identity)} :
                \E woc \in {number_input(typed[2], woc_input, old[2],
                                         new[2], param_identity)} :
                    /\ goc_input' = Some(goc)
                    /\ woc_input' = Some(woc)
                    /\ warned' = inversion_warning(goc, woc)
                    /\ MainPanel(df, goc, woc, S)

\* ------------------------------------------------------------- interactions
\* How many more points the exploration lets the store take (none once it
\* holds the demo dataset, which is longer than MaxPoints).
Room(s) == MaxPoints - Len(s)

\* The form is submitted with the point p.
AddPoint(points, S) ==
    \E p \in points :
        /\ Room(data_points) >= 1
        /\ ScriptRun(Event("add", <<p>>), add_point(data_points, p),
                     uploaded_file, S)

\* A new GOC / WOC is typed (the inputs exist once the store is not empty).
SetContacts(pairs, S) ==
    /\ data_points # <<>>
    /\ \E c \in pairs :
           ScriptRun(Event("contacts", c), data_points, uploaded_file, S)

\* A file is dropped on the uploader.
ChooseFile(S) ==
    \E f \in Files :
        ScriptRun(Event("upload", <<f>>), data_points, Some(f), S)

\* The load button, rendered by the previous run, is clicked: the run
\* reaches line 105, extends the store and calls st.rerun().
LoadUploaded(S) ==
    /\ load_button
    /\ LET up == upload_section(uploaded_file, TRUE)
       IN  /\ Room(data_points) >= Len(up.new_data)
           /\ ScriptRun(Event("load", <<>>),
                        extend_points(data_points, up.new_data),
                        uploaded_file, S)

\* "Reset Semua Data", then st.rerun().
ResetData(S) ==
    ScriptRun(Event("reset", <<>>), reset_points(data_points),
              uploaded_file, S)

\* "Load Data Demo", then st.rerun().
LoadDemo(S) ==
    ScriptRun(Event("demo", <<>>), load_demo(data_points), uploaded_file, S)

\* The page is opened: an empty session, the script has run once.
Init ==
    /\ data_points = <<>>
    /\ uploaded_file = Unbound
    /\ event = Event("open", <<>>)
    /\ goc_input = Unbound
    /\ woc_input = Unbound
    /\ warned = FALSE
    /\ upload_msg = "none"
    /\ load_button = FALSE
    /\ attempted = <<>>
    /\ raised = <<>>
    /\ grid_z = Unbound
    /\ cell_area = Unbound
    /\ vol_total_res = Unbound
    /\ vol_gas_cap = Unbound
    /\ vol_oil_zone = Unbound
    /\ Fluid = Unbound
    /\ shown = "info"
    /\ exception = "none"

Add == AddPoint(InputPoints, SessionSurfaces)
Contact == SetContacts(ContactPairs, SessionSurfaces)
Upload == ChooseFile(SessionSurfaces)
Load == LoadUploaded(SessionSurfaces)
Reset == ResetData(SessionSurfaces)
Demo == LoadDemo(SessionSurfaces)

\* The whole application.
Next == Add \/ Contact \/ Upload \/ Load \/ Reset \/ Demo
Spec == Init /\ [][Next]_vars

\* The point store and the uploader over the stores built from two of the
\* form's points and the files, the contacts left at their defaults, one
\* surface.
StoreSurfaces == {[i \in 1..NumNodes |-> IF i = 1 THEN NaN ELSE Some(20)]}
StorePoints == {P(0, 0, 10), P(10, 0, 20)}
StoreAdd == AddPoint(StorePoints, StoreSurfaces)
StoreUpload == ChooseFile(StoreSurfaces)
StoreLoad == LoadUploaded(StoreSurfaces)
StoreReset == ResetData(StoreSurfaces)
StoreDemo == LoadDemo(StoreSurfaces)
NextStore == StoreAdd \/ StoreUpload \/ StoreLoad \/ StoreReset \/ StoreDemo
SpecStore == Init /\ [][NextStore]_vars

\* The pipeline over every hand-built store, no uploads.
NextPipe == Add \/ Contact \/ Reset \/ Demo
SpecPipe == Init /\ [][NextPipe]_vars

\* The volumetrics over every surface and every pair of contacts, on the
\* demo dataset.
DemoAnySurface == LoadDemo(Surfaces)
ContactAnySurface == SetContacts(AllContactPairs, Surfaces)
NextVol == DemoAnySurface \/ ContactAnySurface
SpecVol == Init /\ [][NextVol]_vars

\* ===================================================================== claims

\* ------------------------------------------------------------------------ C1
Max0(v) == IF v > 0 THEN v ELSE 0

\* C1: whenever a run holds an interpolated surface (any mix of defined and
\* NaN nodes, any pair of contacts), cell_area >= 0, the three volumes are
\* bound and non-negative, and vol_oil_zone is max(0, vol_total_res -
\* vol_gas_cap) exactly.  Checked under SpecVol.
C1_VolumesNonNegative ==
    IsBound(grid_z) =>
        /\ IsBound(cell_area) /\ IsBound(vol_total_res)
        /\ IsBound(vol_gas_cap) /\ IsBound(vol_oil_zone)
        /\ LET area == Val(cell_area)
               total == Val(vol_total_res)
               gas == Val(vol_gas_cap)
               oil == Val(vol_oil_zone)
           IN  /\ area.den > 0 /\ area.num >= 0
               /\ total.den = area.den /\ gas.den = area.den /\ oil.den > 0
               /\ total.num >= 0 /\ gas.num >= 0 /\ oil.num >= 0
               /\ IF total.num > gas.num
                  THEN oil.den = area.den /\ oil.num = total.num - gas.num
                  ELSE oil.num = 0

\* A surface with a NaN node and a node above both contacts: a gas cap and
\* an oil zone of positive volume.
C1_Witness ==
    /\ IsBound(grid_z)
    /\ \E i \in DOMAIN Val(grid_z) : Val(grid_z)[i] = NaN
    /\ \E i \in DOMAIN Val(grid_z) : Val(grid_z)[i] # NaN
    /\ Val(vol_gas_cap).num > 0
    /\ Val(vol_oil_zone).num > 0

\* ------------------------------------------------------------------------ C2
\* The sum of max(0, contact - Z(node)) over the defined nodes alone: the
\* NaN nodes are removed from the grid before anything is computed.
SumOverDefined(contact, grid) ==
    LET defined == SelectSeq(grid, IsBound)
    IN  seq_sum([i \in 1..Len(defined) |-> Max0(contact - Val(defined[i]))])

\* C2: vol_total_res is cell_area times the sum of max(0, WOC - Z) over the
\* defined nodes only, and vol_gas_cap is cell_area times the sum of
\* max(0, GOC - Z) over the defined nodes only.  Checked under SpecVol.
C2_UndefinedNodesExcluded ==
    IsBound(grid_z) =>
        LET area == Val(cell_area)
            grid == Val(grid_z)
        IN  /\ Val(vol_total_res).den = area.den
            /\ Val(vol_total_res).num =
                  area.num * SumOverDefined(Val(woc_input), grid)
            /\ Val(vol_gas_cap).den = area.den
            /\ Val(vol_gas_cap).num =
                  area.num * SumOverDefined(Val(goc_input), grid)

\* A surface with a NaN node and a defined node above WOC, under contacts
\* that a zero depth would lie above.
C2_Witness ==
    /\ IsBound(grid_z)
    /\ \E i \in DOMAIN Val(grid_z) : Val(grid_z)[i] = NaN
    /\ Val(vol_total_res).num > 0
    /\ Val(goc_input) > 0
    /\ Val(cell_area).num > 0

\* ------------------------------------------------------------------------ C3
\* C3: a run on a non-empty dataset of fewer than 4 points shows the raw
\* points, binds no surface and no volume, and ends without an uncaught
\* exception.
C3_SmallDatasetRecovered ==
    (data_points # <<>> /\ Len(data_points) < 4) =>
        /\ shown = "raw_points"
        /\ ~IsBound(grid_z)
        /\ ~IsBound(vol_total_res) /\ ~IsBound(vol_gas_cap)
        /\ ~IsBound(vol_oil_zone)
        /\ exception = "none"

\* ------------------------------------------------------------------------ C4
UniqueLocations(df) == {<<df[i].X, df[i].Y>> : i \in DOMAIN df}

\* C4: a run on a store with fewer than 4 unique (X,Y) locations, however
\* many rows it holds, calls no interpolation and computes no volume.
C4_GateOnUniqueLocations ==
    Cardinality(UniqueLocations(data_points)) < 4 =>
        /\ attempted = <<>>
        /\ ~IsBound(grid_z)
        /\ ~IsBound(vol_total_res) /\ ~IsBound(vol_gas_cap)
        /\ ~IsBound(vol_oil_zone)

\* ------------------------------------------------------------------------ C5
ZeroWidthExtent(df) ==
    \/ \A i \in DOMAIN df : \A j \in DOMAIN df : df[i].X = df[j].X
    \/ \A i \in DOMAIN df : \A j \in DOMAIN df : df[i].Y = df[j].Y

Inverted == IsBound(goc_input) /\ Val(goc_input) > Val(woc_input)

\* C6 as stated: whenever GOC > WOC on a non-empty dataset, the warning is
\* raised, the contacts are as entered, and the volumes are computed
\* without an exception, with vol_oil_zone = 0.
C6_InvertedAlwaysComputes ==
    (data_points # <<>> /\ Inverted) =>
        /\ warned
        /\ event.kind = "contacts" =>
              goc_input = Some(event.arg[1]) /\ woc_input = Some(event.arg[2])
        /\ exception = "none"
        /\ IsBound(vol_total_res) /\ IsBound(vol_gas_cap)
        /\ IsBound(vol_oil_zone)
        /\ Val(vol_oil_zone).num = 0

\* C6 amended: whenever GOC > WOC on a non-empty dataset, the warning is
\* raised and the contacts are as entered; whenever that run also holds an
\* interpolated surface, the volumes are computed by the same formulas
\* without an exception, with vol_oil_zone = 0.  Checked under SpecPipe.
C6_InvertedWarnsAndComputes ==
    (data_points # <<>> /\ Inverted) =>
        /\ warned
        /\ event.kind = "contacts" =>
              goc_input = Some(event.arg[1]) /\ woc_input = Some(event.arg[2])
        /\ IsBound(grid_z) =>
              /\ exception = "none"
              /\ IsBound(vol_total_res) /\ IsBound(vol_gas_cap)
              /\ IsBound(vol_oil_zone)
              /\ Val(vol_total_res).num = Val(cell_area).num
                    * SumOverDefined(Val(woc_input), Val(grid_z))
              /\ Val(vol_gas_cap).num = Val(cell_area).num
                    * SumOverDefined(Val(goc_input), Val(grid_z))
              /\ Val(vol_gas_cap).num >= Val(vol_total_res).num
              /\ Val(vol_oil_zone).num = 0

\* Inverted contacts typed on a store that interpolates: warned, a gas-cap
\* figure above zero, no oil zone.
C6_Witness ==
    /\ Inverted
    /\ event.kind = "contacts"
    /\ warned
    /\ IsBound(grid_z)
    /\ Val(vol_gas_cap).num > 0
    /\ Val(vol_oil_zone).num = 0

\* ------------------------------------------------------------------------ C7
\* C7: every row of df gets exactly one label, one of Gas Cap, Oil Zone,
\* Aquifer and never Unknown, whatever the contacts (in order, equal or
\* inverted).  Checked under SpecPipe.
C7_ClassificationTotal ==
    IsBound(Fluid) =>
        /\ Len(Val(Fluid)) = Len(data_points)
        /\ \A i \in 1..Len(data_points) :
              Val(Fluid)[i] \in {"Gas Cap", "Oil Zone", "Aquifer"}

\* Inverted contacts with a point on GOC and equal contacts with a point
\* on both are each classified somewhere; this is the inverted one.
C7_Witness ==
    /\ IsBound(Fluid)
    /\ Inverted
    /\ \E i \in 1..Len(data_points) : data_points[i].Z = Val(goc_input)
    /\ \E i \in 1..Len(data_points) : data_points[i].Z = Val(woc_input)

\* ------------------------------------------------------------------------ C8
\* C8 as stated: for every pair of contacts, a point with Z = GOC or
\* Z = WOC is Oil Zone; any other point with Z < GOC is Gas Cap and any
\* other point with Z > WOC is Aquifer.
C8_TiesAreOilZone ==
    IsBound(Fluid) =>
        \A i \in 1..Len(data_points) :
            LET z == data_points[i].Z
                goc == Val(goc_input)
                woc == Val(woc_input)
            IN  IF z = goc \/ z = woc THEN Val(Fluid)[i] = "Oil Zone"
                ELSE /\ z < goc => Val(Fluid)[i] = "Gas Cap"
                     /\ z > woc => Val(Fluid)[i] = "Aquifer"

\* C8 amended: for every pair of contacts with GOC <= WOC, a point with
\* Z = GOC or Z = WOC is Oil Zone (both bounds inclusive), Z < GOC gives
\* Gas Cap and Z > WOC gives Aquifer; with GOC > WOC no point is Oil Zone:
\* Z < GOC gives Gas Cap and every other point Aquifer.  Checked under
\* SpecPipe.
C8_TiesAreOilZoneInOrder ==
    IsBound(Fluid) =>
        \A i \in 1..Len(data_points) :
            LET z == data_points[i].Z
                goc == Val(goc_input)
                woc == Val(woc_input)
            IN  IF goc <= woc
                THEN /\ (z = goc \/ z = woc) => Val(Fluid)[i] = "Oil Zone"
                     /\ z < goc => Val(Fluid)[i] = "Gas Cap"
                     /\ z > woc => Val(Fluid)[i] = "Aquifer"
                     /\ (goc < z /\ z < woc) => Val(Fluid)[i] = "Oil Zone"
                ELSE /\ z < goc => Val(Fluid)[i] = "Gas Cap"
                     /\ z >= goc => Val(Fluid)[i] = "Aquifer"

\* Contacts in order, one point on GOC and another on WOC, both Oil Zone.
C8_Witness ==
    /\ IsBound(Fluid)
    /\ Val(goc_input) < Val(woc_input)
    /\ \E i \in 1..Len(data_points) :
          data_points[i].Z = Val(goc_input) /\ Val(Fluid)[i] = "Oil Zone"
    /\ \E i \in 1..Len(data_points) :
          data_points[i].Z = Val(woc_input) /\ Val(Fluid)[i] = "Oil Zone"

\* ------------------------------------------------------------------------ C9
\* The rows of a file as points, read by column name without regard to
\* case.
FilePoints(file) ==
    LET at(row, name) ==
            row[CHOOSE i \in DOMAIN file.columns :
                    upper(file.columns[i]) = name]
    IN  [r \in 1..Len(file.rows) |->
            P(at(file.rows[r], "X"), at(file.rows[r], "Y"),
              at(file.rows[r], "Z"))]

\* What the store holds after the interaction ev, by the reference
\* semantics of the Point Store.
ReferenceStore(before, ev, file) ==
    CASE ev.kind = "add" -> before \o <<ev.arg[1]>>
      [] ev.kind = "load" -> before \o FilePoints(Val(file))
      [] ev.kind = "reset" -> <<>>
      [] ev.kind = "demo" -> DemoData
      [] OTHER -> before

\* C9: every interaction leaves the store as the reference semantics give:
\* add appends its point at the end, bulk-load appends the N points of the
\* file at the end in order, both keeping the earlier points; reset leaves
\* it empty; loadDemo leaves exactly the 13 demo points; nothing else
\* changes it.  The store starts empty.  Checked under SpecStore.
C9_StoreFollowsReference ==
    [][/\ data_points' = ReferenceStore(data_points, event', uploaded_file')
       /\ event'.kind = "demo" => Len(data_points') = 13]_vars

\* A bulk load that appended its rows behind points already in the store.
C9_Witness ==
    /\ event.kind = "load"
    /\ Len(data_points) > Len(Val(uploaded_file).rows)
    /\ Len(Val(uploaded_file).rows) >= 2

\* ----------------------------------------------------------------------- C10
\* The file cannot be parsed, or lacks one of X, Y, Z among its column
\* names taken in upper case.
Rejectable(file) ==
    \/ ~file.parses
    \/ \E name \in {"X", "Y", "Z"} :
          \A i \in DOMAIN file.columns : upper(file.columns[i]) # name

\* C10: while the uploader holds a file that cannot be parsed or lacks a
\* required column, every run reports an error and offers no load button;
\* the run that takes the file in leaves the store exactly as it was, and
\* no load of that file ever happens.  Checked under SpecStore.
C10_BadUploadRejected ==
    [][(IsBound(uploaded_file') /\ Rejectable(Val(uploaded_file'))) =>
          /\ upload_msg' \in {"format_error", "read_error"}
          /\ ~load_button'
          /\ event'.kind # "load"
          /\ event'.kind = "upload" => data_points' = data_points]_vars

\* A file without a Z column was dropped on the uploader of a session that
\* holds points: the format error is shown.
C10_Witness ==
    /\ event.kind = "upload"
    /\ Rejectable(event.arg[1])
    /\ event.arg[1].parses
    /\ data_points # <<>>
    /\ upload_msg = "format_error"
    /\ ~load_button

\* ----------------------------------------------------------------------- C11
\* The run entered the interpolation: 4 rows or more.
InterpolationEntered == Len(data_points) >= 4

\* C11: in every run that enters the interpolation, the cubic method is
\* called first; when it does not raise, no other call is made and the run
\* holds the surface and the volumes without an exception; the linear
\* method is called if and only if the cubic call raised; when the linear
\* call raises as well the run ends in that exception and holds no surface,
\* no cell area and no volume.  A run that does not enter the interpolation
\* calls neither method.  A point set that cannot be triangulated makes
\* both calls raise.  Checked under SpecPipe.
C11_TwoStepResolution ==
    /\ ~InterpolationEntered => attempted = <<>> /\ raised = <<>>
    /\ InterpolationEntered =>
        /\ attempted \in {<<"cubic">>, <<"cubic", "linear">>}
        /\ raised \in {<<>>, <<"cubic">>, <<"cubic", "linear">>}
        /\ (attempted = <<"cubic", "linear">>) <=> (raised # <<>>)
        /\ raised # <<"cubic", "linear">> =>
              /\ IsBound(grid_z) /\ IsBound(cell_area)
              /\ IsBound(vol_total_res) /\ IsBound(vol_gas_cap)
              /\ IsBound(vol_oil_zone)
              /\ exception = "none" /\ shown = "surface"
        /\ raised = <<"cubic", "linear">> =>
              /\ ~IsBound(grid_z) /\ ~IsBound(cell_area)
              /\ ~IsBound(vol_total_res) /\ ~IsBound(vol_gas_cap)
              /\ ~IsBound(vol_oil_zone)
              /\ exception \notin {"none", "NameError"}
        /\ (\A i \in DOMAIN data_points : \A j \in DOMAIN data_points :
            \A k \in DOMAIN data_points :
                collinear(data_points[i], data_points[j], data_points[k]))
              => raised = <<"cubic", "linear">>

\* A store that can be triangulated on which the cubic call raised and the
\* linear call returned the surface.
C11_Witness ==
    /\ InterpolationEntered
    /\ attempted = <<"cubic", "linear">>
    /\ raised = <<"cubic">>
    /\ IsBound(grid_z)
    /\ IsBound(vol_total_res)
    /\ exception = "none"

====
